---- MODULE Spec2Model ----
(***************************************************************************)
(* Model of the routing-use-case application: the authentication state     *)
(* holder (AuthProvider), the /_auth route guard, and the loader that      *)
(* resolves a query keyed by the validated URL search parameters.          *)
(***************************************************************************)
EXTENDS Integers, Sequences, FiniteSets, TLC

(* ------------------------------ bounds --------------------------------- *)

\* Auth calls (login/logout) that may be awaiting their sleep at one time.
MaxPending == 2

\* api.get calls issued since the page was loaded.
MaxRequests == 2

\* Largest numeric identifier a raw search parameter carries.
MaxId == 2

(* --------------------------- JS value model ---------------------------- *)

\* A TypeScript `string | null` is a sequence of length at most one:
\* <<>> is null, <<s>> is the string s.
Null == <<>>

Some(s) == <<s>>

\* JS truthiness of a `string | null`: null and "" are falsy.
Truthy(o) == o /= Null /\ o[1] /= ""

\* String.prototype.trim and String.prototype.length on the strings the
\* login form is given in this model (strings are atoms here).
Trim(s) ==
    CASE s = " " -> ""
      [] s = " admin " -> "admin"
      [] OTHER -> s

Length(s) ==
    CASE s = "" -> 0
      [] s = " " -> 1
      [] s = "ab" -> 2
      [] s = "admin" -> 5
      [] s = " admin " -> 7
      [] s = "abcdefghijklmno" -> 15

\* What the login form's fields can hold.
RawUsernames == {"", " ", "admin", " admin "}

RawPasswords == {"ab", "admin", "abcdefghijklmno"}

\* Tokens passed to login(login, token): any string.
Tokens == {"", "skajdksjakdj"}

PasswordMin == 3

PasswordMax == 14

\* LoginSchema.safeParse: username is any string, trimmed; password has 3 to
\* 14 characters (checked before the trim), trimmed.
LoginSchema(rawUsername, rawPassword) ==
    [success |-> Length(rawPassword) >= PasswordMin
                 /\ Length(rawPassword) <= PasswordMax,
     data |-> [username |-> Trim(rawUsername), password |-> Trim(rawPassword)]]

(* ------------------------- URL search parameters ----------------------- *)

\* A raw search-parameter value, tagged with its JS type as zod sees it
\* (zod reports NaN as the type "nan", not "number").
Undefined == [type |-> "undefined", num |-> 0, str |-> ""]

Num(n) == [type |-> "number", num |-> n, str |-> ""]

Str(s) == [type |-> "string", num |-> 0, str |-> s]

NaN == [type |-> "nan", num |-> 0, str |-> ""]

JsNull == [type |-> "null", num |-> 0, str |-> ""]

Bool(b) == [type |-> "boolean", num |-> IF b THEN 1 ELSE 0, str |-> ""]

\* The raw values a search parameter can hold after the router parsed the URL
\* (or a caller passed to navigate()).
RawValues ==
    {Undefined, NaN, JsNull, Bool(TRUE), Str("1"), Str("abc")}
    \cup {Num(n) : n \in (-1)..MaxId}

RawSearches == [userId : RawValues, postId : RawValues]

NoSearch == [userId |-> Undefined, postId |-> Undefined]

\* A `number | undefined` field of FilterType: <<>> is undefined, <<n>> is n.
Absent == <<>>

\* Mutant: z.coerce.number(), which turns a numeric string into a number.
ZNumberCoerce(v) ==
    CASE v.type = "number" -> <<v.num>>
      [] v = Str("1") -> <<1>>
      [] OTHER -> Absent

\* z.number().optional().catch(undefined)
ZNumberOptionalCatch(v) == IF v.type = "number" THEN <<v.num>> ELSE Absent

\* FilterSchema: z.object strips unknown keys and parses the two fields.
FilterSchema(raw) ==
    [userId |-> ZNumberOptionalCatch(raw.userId),
     postId |-> ZNumberOptionalCatch(raw.postId)]

\* JS truthiness of a `number | undefined` (no NaN survives FilterSchema).
NumTruthy(o) == o /= Absent /\ o[1] /= 0

\* The search object onSubmit hands to navigate() for the form's values:
\* search: { userId: data.userId }.  It has the one field; data.postId does
\* not go into it.
RawOfField(o) == IF o = Absent THEN Undefined ELSE Num(o[1])

RawOf(data) == [userId |-> RawOfField(data.userId), postId |-> Undefined]

\* Select.onValueChange: search: { userId: +value }, value the id of a user.
SelectSearch(id) == [userId |-> Num(id), postId |-> Undefined]

\* The Link of a post on the users page:
\* search={{ postId: post.id, userId: post.userId }}.
PostLinkSearch(post) == [userId |-> Num(post.userId), postId |-> Num(post.id)]

\* String(n) for the numbers of the model.
NumStr(n) ==
    CASE n = -1 -> "-1" [] n = 0 -> "0" [] n = 1 -> "1" [] n = 2 -> "2"
      [] n = 3 -> "3" [] n = 4 -> "4" [] n = 5 -> "5" [] n = 6 -> "6"
      [] n = 7 -> "7" [] n = 8 -> "8" [] n = 9 -> "9"

NumStrs == {NumStr(n) : n \in (-1)..9}

NumOfStr(s) == CHOOSE n \in (-1)..9 : NumStr(n) = s

\* JSON.stringify of a string.
Quote(s) == "\"" \o s \o "\""

QuotedStrs == {Quote(v.str) : v \in {r \in RawValues : r.type = "string"}}

Unquote(q) == (CHOOSE v \in {r \in RawValues : r.type = "string"} : Quote(v.str) = q).str

\* Whether JSON.parse(s) succeeds.
JsonParses(s) == s \in NumStrs \cup QuotedStrs \cup {"null", "true", "false"}

\* The router's default stringifySearch, for one value: an undefined field is
\* left out of the URL (<<>>), a string that would parse as JSON is quoted,
\* anything else is written with String().
StringifyValue(v) ==
    CASE v.type = "undefined" -> <<>>
      [] v.type = "number"    -> <<NumStr(v.num)>>
      [] v.type = "nan"       -> <<"NaN">>
      [] v.type = "null"      -> <<"null">>
      [] v.type = "boolean"   -> <<IF v.num = 1 THEN "true" ELSE "false">>
      [] v.type = "string"    -> <<IF JsonParses(v.str) THEN Quote(v.str) ELSE v.str>>

StringifySearch(raw) ==
    [userId |-> StringifyValue(raw.userId), postId |-> StringifyValue(raw.postId)]

\* Mutant: a parser that leaves every URL value a string, as URLSearchParams does.
ParseValue_AllStrings(o) ==
    IF o = <<>> THEN Undefined ELSE Str(o[1])

\* The router's default parseSearch, for one value of the URL: booleans and
\* numerals become booleans and numbers, whatever JSON.parse accepts is
\* parsed, and the rest stays a string.
ParseValue(o) ==
    CASE o = <<>>                 -> Undefined
      [] o \in {<<"true">>, <<"false">>} -> Bool(o[1] = "true")
      [] o /= <<>> /\ o[1] \in NumStrs    -> Num(NumOfStr(o[1]))
      [] o = <<"null">>           -> JsNull
      [] o /= <<>> /\ o[1] \in QuotedStrs -> Str(Unquote(o[1]))
      [] OTHER                    -> Str(o[1])

ParseSearch(href) ==
    [userId |-> ParseValue(href.userId), postId |-> ParseValue(href.postId)]

NoHref == [userId |-> <<>>, postId |-> <<>>]

(* ---------------------------- localStorage ----------------------------- *)

key == "boilerplate.auth.user"

keyToken == "boilerplate.auth.token"

StorageKeys == {key, keyToken}

getStoredUser(ls) == ls[key]

setStoredUser(ls, u) ==
    IF Truthy(u) THEN [ls EXCEPT ![key] = u]
                 ELSE [ls EXCEPT ![key] = Null]

\* Mutant: the token read back from the user's entry.
getStoredToken_UserKey(ls) == ls[key]

getStoredToken(ls) == ls[keyToken]

\* The else branch removes `key`, the user's entry, as the source does.
setStoredToken(ls, t) ==
    IF Truthy(t) THEN [ls EXCEPT ![keyToken] = t]
                 ELSE [ls EXCEPT ![key] = Null]

(* ------------------------------- sleeps -------------------------------- *)

LoginSleep == 500

LogoutSleep == 250

\* Time advances in steps of the shorter sleep; both sleeps are multiples.
TickStep == LogoutSleep

(* ------------------------------ the query ------------------------------ *)

placeholderPost == "placeholderPost"

\* What the backend can answer to api.get('posts', {params}): a body, or a
\* network failure (the promise rejects).
Bodies == {"posts", "malformed"}

Rejects == "reject"

Responses == Bodies \cup {Rejects}

\* PostSchema.array().safeParse(data).success
PostSchemaArrayOk(body) == body = "posts"

\* Mutant: GetUserPostById without its first line.
SkipsFetch_Never(filter) == FALSE

\* GetUserPostById, first line: no network call without an identifying field.
SkipsFetch(filter) == ~NumTruthy(filter.postId) /\ ~NumTruthy(filter.userId)

\* Mutant: the response is returned without looking at safeParse's verdict.
ValidatedResult_Unchecked(body) == [type |-> "success", data |-> body]

\* GetUserPostById after api.get answered with `body`.
ValidatedResult(body) ==
    IF ~PostSchemaArrayOk(body)
    THEN [type |-> "error", data |-> placeholderPost]
    ELSE [type |-> "success", data |-> body]

PlaceholderResult == [type |-> "error", data |-> placeholderPost]

\* The state of one query of the QueryClient's cache.
NoQuery == [status |-> "none", fetchStatus |-> "idle", data |-> <<>>]

FetchingQuery == [status |-> "pending", fetchStatus |-> "fetching", data |-> <<>>]

SuccessQuery(d) == [status |-> "success", fetchStatus |-> "idle", data |-> <<d>>]

ErrorQuery == [status |-> "error", fetchStatus |-> "idle", data |-> <<>>]


\* The posts a well-formed body lists, by which the users page builds its
\* Links: one post of user 1.
PostsOf(body) == IF body = "posts" THEN {[id |-> 1, userId |-> 1]} ELSE {}

\* The two queries of services/hooks/postsByUser, by the first element of
\* their key.
UserPostByIdTag == "posts-by-user"

PostByUserIdTag == "PostByUserId"

QueryTags == {UserPostByIdTag, PostByUserIdTag}

\* A query key [tag, filter].
QueryKey(tag, filter) == [tag |-> tag, filter |-> filter]

\* PostByUserId's query function: no network call when both identifying
\* fields of the filter are absent.
PostByUserIdSkips(filter) == filter.userId = Absent /\ filter.postId = Absent

\* PostByUserId's query function after the backend answered with `body`: a
\* body that fails validation gives the error-tagged placeholder entry.
PostByUserIdResult(body) ==
    IF body = "posts"
    THEN [type |-> "success", data |-> body]
    ELSE [type |-> "error", data |-> placeholderPost]

\* Whether the query function of key k returns before any api.get.
QuerySkips(k) ==
    IF k.tag = UserPostByIdTag THEN SkipsFetch(k.filter)
                               ELSE PostByUserIdSkips(k.filter)

\* What the query function of key k resolves to for the answer `body`.
QueryResult(k, body) ==
    IF k.tag = UserPostByIdTag THEN ValidatedResult(body)
                               ELSE PostByUserIdResult(body)

(* ------------------------------- routes -------------------------------- *)

PublicPaths == {"/", "/about"}

ProtectedPaths == {"/home", "/users", "/users/$id"}

Paths == PublicPaths \cup ProtectedPaths

\* Routes that declare validateSearch, loaderDeps and a loader.
HasLoader(path) == path \in {"/users", "/users/$id"}

\* Routes that declare a pendingComponent (createRouter sets no default one).
HasPendingComponent(path) == path = "/users"

\* The query a route's loader passes to ensureQueryData.
QueryOfRoute(path) ==
    IF path = "/users/$id" THEN UserPostByIdTag ELSE PostByUserIdTag

NoFilter == [userId |-> Absent, postId |-> Absent]

\* The users of the Select on the users page, by id (the first two of the
\* menu's sixteen).
USERS == {1, 2}

\* Raw search objects the navigations to '/users/$id' carry in the model.
NavSearches ==
    { NoSearch,
      [userId |-> Num(0),    postId |-> Undefined],
      [userId |-> Num(1),    postId |-> Undefined],
      [userId |-> Undefined, postId |-> Num(1)] }

\* Raw search objects the navigations to '/users' carry in the model.
UsersSearches ==
    { NoSearch,
      [userId |-> Num(1),    postId |-> Undefined] }

\* The navigations of the loader specification: every route without a
\* loader, and '/users/$id' with each of its searches.
LoaderTargets ==
    {<<path, NoSearch>> : path \in {p \in Paths : ~HasLoader(p)}}
    \cup {<<"/users/$id", raw>> : raw \in NavSearches}

\* The navigations of the users page's specification: the index page, the
\* users page, and '/users/$id' as the page's Links and the address bar
\* reach it.
UsersTargets ==
    {<<"/", NoSearch>>}
    \cup {<<"/users", raw>> : raw \in UsersSearches}
    \cup {<<"/users/$id", [userId |-> Num(1), postId |-> Undefined]>>}
    \cup {<<"/users/$id", PostLinkSearch(post)>> : post \in PostsOf("posts")}

\* The navigations of the model: a search matters to the loader routes only.
NavTargets == LoaderTargets \cup UsersTargets

\* The SearchFilter values the searches of the model resolve to.
Filters ==
    {FilterSchema(raw) : raw \in NavSearches \cup UsersSearches}
    \cup {FilterSchema(SelectSearch(id)) : id \in USERS}
    \cup {FilterSchema(PostLinkSearch(post)) : post \in PostsOf("posts")}

\* The cache keys of the model.
Keys == {QueryKey(tag, f) : tag \in QueryTags, f \in Filters}

\* The QueryCache is a map from key to query; a key without an entry has
\* no query yet.
QueryOf(qs, k) == IF k \in DOMAIN qs THEN qs[k] ELSE NoQuery

PutQuery(qs, k, q) == [j \in DOMAIN qs \cup {k} |-> IF j = k THEN q ELSE qs[j]]

EmptyCache == [k \in {} |-> NoQuery]

VARIABLES
    user,          \* React state of AuthProvider: string | null
    token,         \* React state of AuthProvider: string | null
    localStorage,  \* the two persisted entries
    timers,        \* pending login/logout calls, in the order they were issued
    resolved,      \* the call (or mount) that resolved last
    context,       \* the AuthContext value of the last render of AuthProvider
    location,      \* the router's location: path, raw and validated search
    match,         \* the loader state of the matched route
    queries,       \* the QueryClient's cache, by key
    requests,      \* the keys of the api.get calls issued since page load
    inflight,      \* the keys of the api.get calls not answered yet
    page,          \* the location and the match the router has on the page
    screen         \* what the last render put on the page

authVars == <<user, token, localStorage, timers, resolved, context>>

routerVars == <<location, match, queries, requests, inflight, page>>

vars == <<user, token, localStorage, timers, resolved, context,
          location, match, queries, requests, inflight, page, screen>>

\* The key of the query the loader of location loc ensures.
KeyOf(loc) == QueryKey(QueryOfRoute(loc.path), loc.search)

\* The loader of the current location is the one of key k.
Loads(k) == HasLoader(location.path) /\ KeyOf(location) = k

(* ------------------------------ rendering ------------------------------ *)

\* Mutant: user !== null, which takes the empty string for a user.
isAuthenticated_NotNull(u) == u /= Null

\* const isAuthenticated = !!user
isAuthenticated(u) == Truthy(u)

\* The value AuthProvider hands to AuthContext.Provider when it renders.
AuthContextValue(u, t) ==
    [isAuthenticated |-> isAuthenticated(u), user |-> u, token |-> t]

\* React.createContext<AuthContext | null>(null): what useContext returns
\* in a tree without an AuthProvider.
NoProvider == [provided |-> FALSE]

\* The value consumers see after a render: the provider's value, if the tree
\* has a provider.
ProvidedContext(ctx, u, t) ==
    IF ctx = NoProvider THEN NoProvider ELSE AuthContextValue(u, t)

ContextMissing == "useAuth must be used within an AuthProvider"

Throws(result) == "thrown" \in DOMAIN result

\* Mutant: a context created with a default value, so that the hook has
\* nothing to throw for.
useAuth_Default(ctx) ==
    IF ctx = NoProvider THEN AuthContextValue(Null, Null) ELSE ctx

\* Mutant: a context value captured before any login, never updated.
useAuth_Stale(ctx) == AuthContextValue(Null, Null)

\* useAuth(): the context value, or the error thrown when there is none.
useAuth(ctx) ==
    IF ctx = NoProvider THEN [thrown |-> ContextMissing] ELSE ctx

\* The state of a match whose loader returned r: the router puts a match on
\* the page once its loader has settled.
MatchOf(r) == [status |-> r.status, data |-> r.data, shown |-> r.status /= "pending"]

\* A match whose loader resolved with data d.
Resolved(d) == [status |-> "success", data |-> d, shown |-> TRUE]

\* The page after the router loaded location loc with match m: the matches
\* of the location it left stay on the page until m is ready to be shown.
CommitPage(pg, loc, m) == IF m.shown THEN [loc |-> loc, match |-> m] ELSE pg

\* What the matched leaf route renders for match m.  Route('/_auth/users/')
\* declares a pendingComponent and an errorComponent; Route('/_auth/users/$id')
\* declares neither: nothing of it renders while its loader waits, and a
\* failed loader leaves the router's own ErrorComponent.
LeafView(loc, m) ==
    CASE loc.path = "/"      -> [view |-> "Index", data |-> <<>>]
      [] loc.path = "/about" -> [view |-> "About", data |-> <<>>]
      [] loc.path = "/home"  -> [view |-> "Home", data |-> <<>>]
      [] loc.path = "/users" ->
            CASE m.status = "pending" -> [view |-> "PendingComponent", data |-> <<>>]
              [] m.status = "error"   -> [view |-> "Error component", data |-> <<>>]
              [] OTHER -> [view |-> "UsersComponent", data |-> m.data]
      [] OTHER ->
            CASE m.status = "pending" -> [view |-> "none", data |-> <<>>]
              [] m.status = "error"   -> [view |-> "ErrorComponent", data |-> <<>>]
              [] OTHER -> [view |-> "UserComponent", data |-> m.data]

\* Mutant: the guard's condition without its negation.
AuthRouteComponent_Inverted(ctx, leaf) ==
    IF useAuth(ctx).isAuthenticated
    THEN [guard |-> "AuthComponent", view |-> "UserAuthForm", data |-> <<>>,
          logoutButton |-> FALSE]
    ELSE [guard |-> "Outlet", view |-> leaf.view, data |-> leaf.data,
          logoutButton |-> TRUE]

\* The component of Route('/_auth'): the login form in place of the Outlet
\* when the session is not authenticated.
AuthRouteComponent(ctx, leaf) ==
    IF ~useAuth(ctx).isAuthenticated
    THEN [guard |-> "AuthComponent", view |-> "UserAuthForm", data |-> <<>>,
          logoutButton |-> FALSE]
    ELSE [guard |-> "Outlet", view |-> leaf.view, data |-> leaf.data,
          logoutButton |-> TRUE]

\* Mutant: the guard placed at the root, in front of every route.
RootComponent_GuardsAll(ctx, loc, m) ==
    IF Throws(useAuth(ctx))
    THEN [guard |-> "none", view |-> useAuth(ctx).thrown, data |-> <<>>,
          logoutButton |-> FALSE]
    ELSE IF ~m.shown
    THEN [guard |-> "none", view |-> "none", data |-> <<>>,
          logoutButton |-> useAuth(ctx).isAuthenticated]
    ELSE AuthRouteComponent(ctx, LeafView(loc, m))

\* RootComponent for the location and the match on the page: the navigation
\* bar (with the logout button while authenticated) and the Outlet of the
\* matched route.  A page that was loaded at a location whose loader still
\* waits, with no pending component up, holds none of the routes' components.
RootComponent(ctx, loc, m) ==
    IF Throws(useAuth(ctx))
    THEN [guard |-> "none", view |-> useAuth(ctx).thrown, data |-> <<>>,
          logoutButton |-> FALSE]
    ELSE IF ~m.shown
    THEN [guard |-> "none", view |-> "none", data |-> <<>>,
          logoutButton |-> useAuth(ctx).isAuthenticated]
    ELSE IF loc.path \in ProtectedPaths
    THEN AuthRouteComponent(ctx, LeafView(loc, m))
    ELSE [guard |-> "none", view |-> LeafView(loc, m).view, data |-> <<>>,
          logoutButton |-> useAuth(ctx).isAuthenticated]

\* The Links with a loader route for target that page s holds: the navigation
\* bar's Link to '/users', UserComponent's Link back to '/users', and on the
\* users page the Links to '/users/$id', one per user of the menu (no
\* search) and one per post listed (the post's ids for search).
LinksOn(s) ==
    IF s.view = ContextMissing THEN {}
    ELSE {<<"/users", NoSearch>>}
         \cup (IF s.view = "UsersComponent"
               THEN {<<"/users/$id", NoSearch>>}
                    \cup {<<"/users/$id", PostLinkSearch(post)>> :
                            post \in IF s.data[1].type = "success"
                                     THEN PostsOf(s.data[1].data) ELSE {}}
               ELSE {})

(* ------------------------------ the loader ----------------------------- *)

\* Mutant: a second call for a key whose fetch is in flight fetches again.
ensureQueryData_NoDedupe(qs, k) ==
    LET q == QueryOf(qs, k)
    IN  IF q.data /= <<>>
        THEN [queries |-> qs, status |-> "success", data |-> q.data,
              fetched |-> FALSE]
        ELSE IF QuerySkips(k)
        THEN [queries |-> PutQuery(qs, k, SuccessQuery(PlaceholderResult)),
              status |-> "success", data |-> <<PlaceholderResult>>,
              fetched |-> FALSE]
        ELSE [queries |-> PutQuery(qs, k, FetchingQuery),
              status |-> "pending", data |-> <<>>, fetched |-> TRUE]

\* Mutant: fetchQuery with the default staleTime of 0, for which a stored
\* entry is stale at once and is fetched again.
ensureQueryData_Refetch(qs, k) ==
    LET q == QueryOf(qs, k)
    IN  IF q.fetchStatus = "fetching"
        THEN [queries |-> qs, status |-> "pending", data |-> <<>>,
              fetched |-> FALSE]
        ELSE IF QuerySkips(k)
        THEN [queries |-> PutQuery(qs, k, SuccessQuery(PlaceholderResult)),
              status |-> "success", data |-> <<PlaceholderResult>>,
              fetched |-> FALSE]
        ELSE [queries |-> PutQuery(qs, k, FetchingQuery),
              status |-> "pending", data |-> <<>>, fetched |-> TRUE]

\* Mutant: revalidateIfStale, which returns the stored entry and fetches it
\* again in the background.
ensureQueryData_Revalidate(qs, k) ==
    LET q == QueryOf(qs, k)
    IN  IF q.data /= <<>>
        THEN [queries |-> IF QuerySkips(k) \/ q.fetchStatus = "fetching" THEN qs
                          ELSE PutQuery(qs, k,
                                   [q EXCEPT !.fetchStatus = "fetching"]),
              status |-> "success", data |-> q.data,
              fetched |-> ~QuerySkips(k) /\ q.fetchStatus /= "fetching"]
        ELSE IF q.fetchStatus = "fetching"
        THEN [queries |-> qs, status |-> "pending", data |-> <<>>,
              fetched |-> FALSE]
        ELSE IF QuerySkips(k)
        THEN [queries |-> PutQuery(qs, k, SuccessQuery(PlaceholderResult)),
              status |-> "success", data |-> <<PlaceholderResult>>,
              fetched |-> FALSE]
        ELSE [queries |-> PutQuery(qs, k, FetchingQuery),
              status |-> "pending", data |-> <<>>, fetched |-> TRUE]

\* Mutant: a query in the error state is taken for settled and is not
\* fetched again.
ensureQueryData_KeepsError(qs, k) ==
    LET q == QueryOf(qs, k)
    IN  IF q.data /= <<>>
        THEN [queries |-> qs, status |-> "success", data |-> q.data,
              fetched |-> FALSE]
        ELSE IF q.fetchStatus = "fetching"
        THEN [queries |-> qs, status |-> "pending", data |-> <<>>,
              fetched |-> FALSE]
        ELSE IF q.status = "error"
        THEN [queries |-> qs, status |-> "error", data |-> <<>>,
              fetched |-> FALSE]
        ELSE IF QuerySkips(k)
        THEN [queries |-> PutQuery(qs, k, SuccessQuery(PlaceholderResult)),
              status |-> "success", data |-> <<PlaceholderResult>>,
              fetched |-> FALSE]
        ELSE [queries |-> PutQuery(qs, k, FetchingQuery),
              status |-> "pending", data |-> <<>>, fetched |-> TRUE]

\* queryClient.ensureQueryData(options) for the query of key k on cache qs:
\* the cache afterwards, the state of the loader's promise, and whether
\* api.get was called.  A query whose queryFn skips the network resolves at
\* once.
ensureQueryData(qs, k) ==
    LET q == QueryOf(qs, k)
    IN  IF q.data /= <<>>
        THEN [queries |-> qs, status |-> "success", data |-> q.data,
              fetched |-> FALSE]
        ELSE IF q.fetchStatus = "fetching"
        THEN [queries |-> qs, status |-> "pending", data |-> <<>>,
              fetched |-> FALSE]
        ELSE IF QuerySkips(k)
        THEN [queries |-> PutQuery(qs, k, SuccessQuery(PlaceholderResult)),
              status |-> "success", data |-> <<PlaceholderResult>>,
              fetched |-> FALSE]
        ELSE [queries |-> PutQuery(qs, k, FetchingQuery),
              status |-> "pending", data |-> <<>>, fetched |-> TRUE]

\* The router loading location loc: routes without a loader are ready at
\* once; a loader route runs ensureQueryData on its validated search,
\* whatever the parent route's component will render.
LoadRoute(qs, loc) ==
    IF HasLoader(loc.path)
    THEN ensureQueryData(qs, KeyOf(loc))
    ELSE [queries |-> qs, status |-> "success", data |-> <<>>, fetched |-> FALSE]

\* The location the router parses from the URL of a history entry: href is
\* the search string, pushed tells whether the router created the entry
\* (a navigation) or the browser did (a URL opened from outside).
LocationOfUrl(path, href, pushed) ==
    [path |-> path, href |-> href, raw |-> ParseSearch(href),
     search |-> IF HasLoader(path) THEN FilterSchema(ParseSearch(href)) ELSE NoFilter,
     pushed |-> pushed]

\* The location of a navigation to path with search object raw: the router
\* writes the search into the URL and validateSearch resolves it.
LocationOfNav(path, raw) ==
    [path |-> path, href |-> StringifySearch(raw), raw |-> raw,
     search |-> IF HasLoader(path) THEN FilterSchema(raw) ELSE NoFilter,
     pushed |-> TRUE]

LoginCall(u, t) == [op |-> "login", username |-> u, token |-> t]

LogoutCall == [op |-> "logout", username |-> "", token |-> ""]

MountCall == [op |-> "mount", username |-> "", token |-> ""]

(* --------------------------- auth operations --------------------------- *)

\* login: setStoredUser(login.username); setStoredToken(token)
loginStorage(ls, c) ==
    setStoredToken(setStoredUser(ls, Some(c.username)), Some(c.token))

\* login: setUser(login.username)
loginUser(c) == Some(c.username)

\* login: setToken(token)
loginToken(c) == Some(c.token)

\* logout: setStoredUser(null)
logoutStorage(ls) == setStoredUser(ls, Null)

\* Mutant: logout without its setUser(null).
logoutUser_Keeps(u) == u

\* logout: setUser(null)
logoutUser(u) == Null

\* logout leaves the token state alone.
logoutToken(t) == t

\* Mutant: logout that also clears the query cache.
logoutQueries_Clears(qs) == EmptyCache

\* logout does not touch the QueryClient.
logoutQueries(qs) == qs

(* ------------------------------ actions -------------------------------- *)

\* The pending logins whose caller chained router.invalidate() on them.
Invalidating == {i \in 1..Len(timers) : timers[i].then = "invalidate"}

\* Room for one more api.get within the bound, the loader runs of the
\* pending invalidations counted in.
MayFetch == Len(requests) + Cardinality(Invalidating) < MaxRequests

\* A fresh page load at the current URL: AuthProvider's useState
\* initialisers and mount effect read both entries back, the timers and the
\* query cache of the previous page are gone, and the router loads the URL.
MountAt(loc) ==
    LET r == LoadRoute(EmptyCache, loc)
    IN  /\ user' = getStoredUser(localStorage)
        /\ token' = getStoredToken(localStorage)
        /\ timers' = <<>>
        /\ resolved' = MountCall
        /\ location' = loc
        /\ queries' = r.queries
        /\ match' = MatchOf(r)
        /\ requests' = IF r.fetched THEN <<KeyOf(loc)>> ELSE <<>>
        /\ inflight' = IF r.fetched THEN <<KeyOf(loc)>> ELSE <<>>
        /\ page' = [loc |-> loc, match |-> match']
        /\ context' = ProvidedContext(context, user', token')
        /\ screen' = RootComponent(context', loc, match')
        /\ UNCHANGED localStorage

\* The page is reloaded: the history entry and its URL stay.
Mount == MountAt(LocationOfUrl(location.path, location.href, location.pushed))

\* The URL the router wrote is opened from outside (a bookmark, a shared
\* link): a fresh page load at a history entry the browser creates.
OpenUrl ==
    /\ location.pushed
    /\ MountAt(LocationOfUrl(location.path, location.href, FALSE))

\* login(login, token) is called: it awaits sleep(500) before any write.
\* `then` is what the caller chained on the promise login returns.
LoginCalled(login, t, then) ==
    /\ Len(timers) < MaxPending
    /\ timers' = Append(timers, [call |-> LoginCall(login.username, t),
                                 remaining |-> LoginSleep, then |-> then])
    /\ UNCHANGED <<user, token, localStorage, resolved, context, routerVars, screen>>

\* logout() is called: it awaits sleep(250) before any write.
LogoutCalled ==
    /\ Len(timers) < MaxPending
    /\ timers' = Append(timers, [call |-> LogoutCall, remaining |-> LogoutSleep,
                                 then |-> "none"])
    /\ UNCHANGED <<user, token, localStorage, resolved, context, routerVars, screen>>

\* UserAuthForm.onSubmit: the form's values go through LoginSchema, and
\* auth.login(values, 'skajdksjakdj').then(() => router.invalidate()) is
\* called for admin/admin only.
SubmitLogin(rawUsername, rawPassword) ==
    LET values == LoginSchema(rawUsername, rawPassword)
    IN  /\ screen.guard = "AuthComponent"
        /\ values.success
        /\ values.data.username = "admin" /\ values.data.password = "admin"
        /\ MayFetch
        /\ LoginCalled(values.data, "skajdksjakdj", "invalidate")

\* Any caller of login with a LoginSchema-parsed object and a token.
LoginWith(rawUsername, rawPassword, t) ==
    LET values == LoginSchema(rawUsername, rawPassword)
    IN  /\ values.success
        /\ LoginCalled(values.data, t, "none")

\* The navigation bar's logout button: onClick={() => auth.logout()}.
ClickLogout ==
    /\ screen.logoutButton
    /\ LogoutCalled

\* Mutant: calls complete in the order they were issued, a call waiting for
\* the calls issued before it.
Due_IssueOrder == {i \in 1..Len(timers) : i = 1 /\ timers[i].remaining <= 0}

Due == {i \in 1..Len(timers) : timers[i].remaining = 0}

\* Time passes while no sleep is due.
Tick ==
    /\ timers /= <<>>
    /\ Due = {}
    /\ timers' = [i \in 1..Len(timers) |->
                    [timers[i] EXCEPT !.remaining = @ - TickStep]]
    /\ UNCHANGED <<user, token, localStorage, resolved, context, routerVars, screen>>

RemoveAt(s, i) == [j \in 1..(Len(s) - 1) |-> IF j < i THEN s[j] ELSE s[j + 1]]

\* The first timer that is due (timers due together fire in creation order).
FirstDue == CHOOSE i \in Due : \A j \in Due : i <= j

\* Whether the promise of a call that resolved runs router.invalidate().
Invalidates(then) == then = "invalidate"

\* The match after the router loaded the current location again and its
\* loader returned r: a match that already waits goes on waiting as it is.
Reloaded(m, r) ==
    IF r.status = "pending" /\ m.status = "pending" THEN m ELSE MatchOf(r)

\* The body of login after its sleep and the render its setState calls
\* cause; then, for the login form's call, router.invalidate(): the router
\* loads the current location again, which runs the matched route's loader.
LoginResolves ==
    /\ Due /= {}
    /\ timers[FirstDue].call.op = "login"
    /\ LET c == timers[FirstDue].call
       IN /\ localStorage' = loginStorage(localStorage, c)
          /\ user' = loginUser(c)
          /\ token' = loginToken(c)
          /\ resolved' = c
    /\ timers' = RemoveAt(timers, FirstDue)
    /\ context' = ProvidedContext(context, user', token')
    /\ IF Invalidates(timers[FirstDue].then)
       THEN LET r == LoadRoute(queries, location)
            IN  /\ queries' = r.queries
                /\ match' = Reloaded(match, r)
                /\ requests' = IF r.fetched THEN Append(requests, KeyOf(location))
                                            ELSE requests
                /\ inflight' = IF r.fetched THEN Append(inflight, KeyOf(location))
                                            ELSE inflight
       ELSE UNCHANGED <<queries, match, requests, inflight>>
    /\ page' = CommitPage(page, location, match')
    /\ screen' = RootComponent(context', page'.loc, page'.match)
    /\ UNCHANGED location

\* The body of logout after its sleep, and the render its setState causes.
LogoutResolves ==
    /\ Due /= {}
    /\ timers[FirstDue].call.op = "logout"
    /\ localStorage' = logoutStorage(localStorage)
    /\ user' = logoutUser(user)
    /\ token' = logoutToken(token)
    /\ resolved' = LogoutCall
    /\ timers' = RemoveAt(timers, FirstDue)
    /\ queries' = logoutQueries(queries)
    /\ context' = ProvidedContext(context, user', token')
    /\ screen' = RootComponent(context', page.loc, page.match)
    /\ UNCHANGED <<location, match, requests, inflight, page>>

\* A navigation to path with search object raw (a Link, navigate(), the
\* address bar): validateSearch resolves the search, the loader of the
\* matched route runs, and the router puts the route on the page once the
\* loader has settled; until then the page it had stays.
Navigate(path, raw) ==
    LET loc == LocationOfNav(path, raw)
        r == LoadRoute(queries, loc)
    IN  /\ r.fetched => MayFetch
        /\ location' = loc
        /\ queries' = r.queries
        /\ match' = MatchOf(r)
        /\ requests' = IF r.fetched THEN Append(requests, KeyOf(loc)) ELSE requests
        /\ inflight' = IF r.fetched THEN Append(inflight, KeyOf(loc)) ELSE inflight
        /\ page' = CommitPage(page, loc, match')
        /\ screen' = RootComponent(context, page'.loc, page'.match)
        /\ UNCHANGED authVars

\* defaultPreload: 'intent': the pointer or the focus comes over a Link of
\* the page, and the router runs the loader of the Link's target.  The
\* location and the page stay as they are.
Preload(path, raw) ==
    LET loc == LocationOfNav(path, raw)
        r == LoadRoute(queries, loc)
    IN  /\ <<path, raw>> \in LinksOn(screen)
        /\ r.fetched => MayFetch
        /\ queries' = r.queries
        /\ requests' = IF r.fetched THEN Append(requests, KeyOf(loc)) ELSE requests
        /\ inflight' = IF r.fetched THEN Append(inflight, KeyOf(loc)) ELSE inflight
        /\ UNCHANGED <<authVars, location, match, page, screen>>

\* The submit event of the users page's form, <form onSubmit=
\* {form.handleSubmit(onSubmit)}>, with the form's values `data`:
\* navigate({ to: '/users', search: { userId: data.userId } }).  The form
\* renders no submit control; the event is one dispatched on the form.
onSubmit(data) ==
    /\ screen.view = "UsersComponent"
    /\ Navigate("/users", RawOf(data))

\* The users page's Select changes to the user of id `id`:
\* navigate({ to: '/users', search: { userId: +value } }).
onValueChange(id) ==
    /\ screen.view = "UsersComponent"
    /\ Navigate("/users", SelectSearch(id))

\* The users page's reset button, rendered while filters.userId is truthy:
\* navigate({ to: '/users' }).
ResetFilter ==
    /\ screen.view = "UsersComponent"
    /\ NumTruthy(page.loc.search.userId)
    /\ Navigate("/users", NoSearch)

\* The loader of the current location has waited for the router's pendingMs:
\* the router puts the matches on the page with the route's pendingComponent.
\* A route without one stays off the page until its loader settles.
PendingElapsed ==
    /\ match.status = "pending"
    /\ ~match.shown
    /\ HasPendingComponent(location.path)
    /\ match' = [match EXCEPT !.shown = TRUE]
    /\ page' = CommitPage(page, location, match')
    /\ screen' = RootComponent(context, page'.loc, page'.match)
    /\ UNCHANGED <<authVars, location, queries, requests, inflight>>

\* The calls in flight for key k.
InFlight(k) == {i \in 1..Len(inflight) : inflight[i] = k}

\* The keys of the api.get calls not answered yet.
InFlightKeys == {inflight[i] : i \in 1..Len(inflight)}

\* Mutant: the answer to a call whose navigation was superseded is dropped,
\* as if the call had been cancelled with the navigation.
FetchSettles_Cancelled(k, resp) ==
    /\ \E i \in 1..Len(inflight) : inflight[i] = k
    /\ inflight' = RemoveAt(inflight, CHOOSE i \in InFlight(k) : \A j \in InFlight(k) : i <= j)
    /\ queries' = IF Loads(k)
                  THEN PutQuery(queries, k,
                           IF resp = Rejects THEN ErrorQuery
                           ELSE SuccessQuery(QueryResult(k, resp)))
                  ELSE [j \in DOMAIN queries \ {k} |-> queries[j]]
    /\ match' = IF Loads(k) /\ match.status = "pending"
                THEN [status |-> queries'[k].status, data |-> queries'[k].data,
                      shown |-> TRUE]
                ELSE match
    /\ page' = CommitPage(page, location, match')
    /\ screen' = RootComponent(context, page'.loc, page'.match)
    /\ UNCHANGED <<authVars, location, requests>>

\* The answer to an api.get in flight for key k arrives: the query settles,
\* and so does the loader of the current route when it awaits it.
FetchSettles(k, resp) ==
    /\ \E i \in 1..Len(inflight) : inflight[i] = k
    /\ inflight' = RemoveAt(inflight, CHOOSE i \in InFlight(k) : \A j \in InFlight(k) : i <= j)
    /\ queries' = PutQuery(queries, k,
                      IF resp = Rejects THEN ErrorQuery
                      ELSE SuccessQuery(QueryResult(k, resp)))
    /\ match' = IF Loads(k) /\ match.status = "pending"
                THEN [status |-> queries'[k].status, data |-> queries'[k].data,
                      shown |-> TRUE]
                ELSE match
    /\ page' = CommitPage(page, location, match')
    /\ screen' = RootComponent(context, page'.loc, page'.match)
    /\ UNCHANGED <<authVars, location, requests>>

\* The QueryClient's garbage collection (default gcTime): a query nothing
\* observes is removed from the cache once it has been idle long enough.
\* The router keeps the loader data of the current match.
CollectGarbage(k) ==
    /\ k \in DOMAIN queries
    /\ queries[k].fetchStatus = "idle"
    /\ queries' = [j \in DOMAIN queries \ {k} |-> queries[j]]
    /\ UNCHANGED <<authVars, location, match, requests, inflight, page, screen>>

Init ==
    /\ localStorage = [k \in StorageKeys |-> Null]
    /\ user = getStoredUser(localStorage)
    /\ token = getStoredToken(localStorage)
    /\ timers = <<>>
    /\ resolved = MountCall
    /\ context = AuthContextValue(user, token)
    /\ location = LocationOfUrl("/", NoHref, FALSE)
    /\ queries = EmptyCache
    /\ match = Resolved(<<>>)
    /\ requests = <<>>
    /\ inflight = <<>>
    /\ page = [loc |-> location, match |-> match]
    /\ screen = RootComponent(context, location, match)

\* The navigations of the application's specification: every route, the
\* loader routes with no search and with one user.
AppTargets ==
    {<<"/", NoSearch>>, <<"/about", NoSearch>>, <<"/home", NoSearch>>,
     <<"/users", NoSearch>>,
     <<"/users", [userId |-> Num(1), postId |-> Undefined]>>,
     <<"/users/$id", NoSearch>>,
     <<"/users/$id", [userId |-> Num(1), postId |-> Undefined]>>}

\* The application as wired: the login form and the logout button are the
\* callers of login and logout.
Next ==
    \/ Mount
    \/ \E u \in RawUsernames, p \in RawPasswords : SubmitLogin(u, p)
    \/ ClickLogout
    \/ Tick
    \/ LoginResolves
    \/ LogoutResolves
    \/ \E nav \in AppTargets : Navigate(nav[1], nav[2])
    \/ \E nav \in AppTargets : Preload(nav[1], nav[2])
    \/ PendingElapsed
    \/ \E k \in Keys, resp \in Responses : FetchSettles(k, resp)

Spec == Init /\ [][Next]_vars

\* The AuthProvider under any caller: login with every accepted username
\* and any token, logout at any time.
NextAuth ==
    \/ Mount
    \/ \E u \in RawUsernames, p \in RawPasswords, t \in Tokens : LoginWith(u, p, t)
    \/ LogoutCalled
    \/ Tick
    \/ LoginResolves
    \/ LogoutResolves
    \/ \E nav \in {n \in NavTargets : ~HasLoader(n[1])} : Navigate(nav[1], nav[2])

SpecAuth == Init /\ [][NextAuth]_vars

\* The application rendered with or without an AuthProvider around it.
InitContext ==
    /\ localStorage = [k \in StorageKeys |-> Null]
    /\ user = getStoredUser(localStorage)
    /\ token = getStoredToken(localStorage)
    /\ timers = <<>>
    /\ resolved = MountCall
    /\ context \in {NoProvider, AuthContextValue(user, token)}
    /\ location = LocationOfUrl("/", NoHref, FALSE)
    /\ queries = EmptyCache
    /\ match = Resolved(<<>>)
    /\ requests = <<>>
    /\ inflight = <<>>
    /\ page = [loc |-> location, match |-> match]
    /\ screen = RootComponent(context, location, match)

\* The session and the routes without a loader, the login form and the
\* logout button being the callers of login and logout.
NextContext ==
    \/ Mount
    \/ \E u \in RawUsernames, p \in RawPasswords : SubmitLogin(u, p)
    \/ ClickLogout
    \/ Tick
    \/ LoginResolves
    \/ LogoutResolves
    \/ \E nav \in {n \in NavTargets : ~HasLoader(n[1])} : Navigate(nav[1], nav[2])

SpecContext == InitContext /\ [][NextContext]_vars

\* validateSearch on a loader route, for every raw search object: the
\* first navigation from the index page, with any search, and the backend
\* answering or failing the call in flight.
NextResolve ==
    \/ \E raw \in RawSearches :
            /\ location.path = "/"
            /\ Navigate("/users/$id", raw)
    \/ \E k \in InFlightKeys, resp \in Responses : FetchSettles(k, resp)

SpecResolve == Init /\ [][NextResolve]_vars

\* A page load with or without a session persisted by an earlier login.
InitLoader ==
    /\ localStorage \in {[k \in StorageKeys |-> Null],
                          loginStorage([k \in StorageKeys |-> Null],
                                       LoginCall("admin", "skajdksjakdj"))}
    /\ user = getStoredUser(localStorage)
    /\ token = getStoredToken(localStorage)
    /\ timers = <<>>
    /\ resolved = MountCall
    /\ context = AuthContextValue(user, token)
    /\ location = LocationOfUrl("/", NoHref, FALSE)
    /\ queries = EmptyCache
    /\ match = Resolved(<<>>)
    /\ requests = <<>>
    /\ inflight = <<>>
    /\ page = [loc |-> location, match |-> match]
    /\ screen = RootComponent(context, location, match)

\* The search of the loader routes through the URL: a first navigation to
\* either route with any search object writes the URL, the backend answers
\* or fails the call in flight, the users page's form is submitted with the
\* values it holds (its defaultValues, the search of the page), and the URL
\* is opened again from outside.
NextRoundTrip ==
    \/ \E path \in {"/users", "/users/$id"}, raw \in RawSearches :
            /\ location.path = "/"
            /\ Navigate(path, raw)
    \/ \E k \in InFlightKeys, resp \in Responses : FetchSettles(k, resp)
    \/ onSubmit(page.loc.search)
    \/ HasLoader(location.path) /\ OpenUrl

SpecRoundTrip == InitLoader /\ [][NextRoundTrip]_vars

\* The navigations of the session and of one fetched key.
OwnerTargets ==
    {<<"/", NoSearch>>, <<"/home", NoSearch>>,
     <<"/users/$id", NoSearch>>,
     <<"/users/$id", [userId |-> Num(1), postId |-> Undefined]>>}

\* The application as wired, over the life of its pages: the session's
\* callers, navigations, answers of the backend and garbage collection.
NextOwner ==
    \/ Mount
    \/ \E u \in RawUsernames, p \in RawPasswords : SubmitLogin(u, p)
    \/ ClickLogout
    \/ Tick
    \/ LoginResolves
    \/ LogoutResolves
    \/ \E nav \in OwnerTargets : Navigate(nav[1], nav[2])
    \/ \E nav \in AppTargets : Preload(nav[1], nav[2])
    \/ \E k \in Keys, resp \in Responses : FetchSettles(k, resp)
    \/ \E k \in Keys : CollectGarbage(k)

SpecOwner == Init /\ [][NextOwner]_vars

\* The loader of '/users/$id' and the query cache over the life of a page:
\* loads, navigations, answers of the backend and garbage collection.
NextLoader ==
    \/ Mount
    \/ \E nav \in LoaderTargets : Navigate(nav[1], nav[2])
    \/ \E k \in Keys, resp \in Responses : FetchSettles(k, resp)
    \/ \E k \in Keys : CollectGarbage(k)

SpecLoader == InitLoader /\ [][NextLoader]_vars

\* The users page: navigations, preloads of the Links on the page, the
\* page's Select and reset button, the pending component's delay and the
\* answers of the backend.
NextUsers ==
    \/ Mount
    \/ \E nav \in UsersTargets : Navigate(nav[1], nav[2])
    \/ \E nav \in NavTargets : Preload(nav[1], nav[2])
    \/ \E id \in USERS : onValueChange(id)
    \/ ResetFilter
    \/ PendingElapsed
    \/ \E k \in Keys, resp \in Responses : FetchSettles(k, resp)

SpecUsers == InitLoader /\ [][NextUsers]_vars

(* ------------------------------ properties ----------------------------- *)

\* A `string | null` is present when it is a non-empty string.
Present(o) == o /= Null /\ o /= Some("")

\* JS-falsy values (null, "") taken as one absent value.
Norm(o) == IF Present(o) THEN o ELSE Null


\* C1: in every reachable state, pending calls or not, the isAuthenticated
\* the provider exposes is true exactly when its user is a non-empty string.
C1_AuthIffUserPresent ==
    /\ context.isAuthenticated <=> Present(context.user)
    /\ context.user = user

\* C1 witness: a login with the empty username has resolved while another
\* call is pending, and the provider exposes an unauthenticated session.
C1_Witness ==
    /\ resolved.op = "login"
    /\ context.user = Some("")
    /\ ~context.isAuthenticated
    /\ timers /= <<>>

\* C2 (as claimed): once a login with any LoginSchema-accepted credentials
\* has resolved, the session is authenticated, its user is the username and
\* its token the token passed.
C2_LoginAuthenticates ==
    resolved.op = "login" =>
        /\ context.isAuthenticated
        /\ user = Some(resolved.username)
        /\ token = Some(resolved.token)

\* C3: once logout has resolved, the session is unauthenticated and has no
\* user.
C3_LogoutUnauthenticates ==
    resolved.op = "logout" =>
        /\ ~context.isAuthenticated
        /\ user = Null
        /\ context.user = Null

\* C3 witness: a logout has resolved after a login (the token it left
\* behind shows it) with nothing else pending.
C3_Witness ==
    /\ resolved.op = "logout"
    /\ token = Some("skajdksjakdj")
    /\ timers = <<>>
    /\ user = Null

\* C4 (as claimed): once logout has resolved, user and token are absent in
\* memory and in persisted storage.
C4_LogoutClearsBoth ==
    resolved.op = "logout" =>
        /\ user = Null
        /\ token = Null
        /\ localStorage[key] = Null
        /\ localStorage[keyToken] = Null

\* C5 (as claimed): after a login or a logout has resolved, the persisted
\* user and token are the ones in memory (null and "" taken as the same
\* absent value), so that a restart restores the session in memory.
C5_PersistedEqualsMemory ==
    resolved.op \in {"login", "logout"} =>
        /\ Norm(localStorage[key]) = Norm(user)
        /\ Norm(localStorage[keyToken]) = Norm(token)

\* C6: after a page load and before any login or logout resolves, the
\* session is the persisted one: authenticated with the persisted user and
\* token when a user is persisted, unauthenticated when storage is empty.
C6_RestoreFromStorage ==
    resolved.op = "mount" =>
        /\ user = localStorage[key]
        /\ token = localStorage[keyToken]
        /\ context.isAuthenticated <=> localStorage[key] /= Null
        /\ context.user = user /\ context.token = token

\* C6 witness: a page load found a persisted user and token, and the session
\* is authenticated with them while no login is pending.
C6_Witness ==
    /\ resolved.op = "mount"
    /\ localStorage[key] = Some("admin")
    /\ localStorage[keyToken] = Some("skajdksjakdj")
    /\ context.isAuthenticated
    /\ user = Some("admin") /\ token = Some("skajdksjakdj")
    /\ timers = <<>>

\* The views of the routes' components.
LeafViews ==
    {"Index", "About", "Home", "UserComponent", "UsersComponent",
     "PendingComponent", "Error component", "ErrorComponent"}

\* The views of the routes under Route('/_auth').
ProtectedViews == LeafViews \ {"Index", "About"}

\* The keys of UserPostById and of PostByUserId for a filter.
UserKey(f) == QueryKey(UserPostByIdTag, f)

UsersKey(f) == QueryKey(PostByUserIdTag, f)

User1 == [userId |-> <<1>>, postId |-> Absent]

Post1 == [userId |-> Absent, postId |-> <<1>>]

\* C7: while the session is unauthenticated the page shows no view of the
\* protected subtree, and a protected route the router has put on the page
\* shows the login form; while the session is authenticated, a protected
\* route on the page shows the Outlet with the matched route's view.
C7_GuardRenders ==
    /\ ~Present(user) => (screen.view \notin ProtectedViews /\ screen.data = <<>>)
    /\ (page.loc.path \in ProtectedPaths /\ page.match.shown) =>
          IF Present(user)
          THEN /\ screen.guard = "Outlet"
               /\ screen.view = LeafView(page.loc, page.match).view
               /\ screen.view \in ProtectedViews
          ELSE /\ screen.guard = "AuthComponent"
               /\ screen.view = "UserAuthForm"

\* C7 witness: the loader route is on the page with its data loaded, the
\* session is unauthenticated, and the login form is what the page shows.
C7_Witness ==
    /\ location.path = "/users/$id"
    /\ page.loc = location
    /\ match.status = "success"
    /\ match.data /= <<>>
    /\ ~Present(user)
    /\ screen.guard = "AuthComponent"

\* C8 (as claimed): a navigation to another, protected location while the
\* session is unauthenticated calls no ensure and issues no fetch: the query
\* cache and the api.get calls stay as they were.
C8_NoLoadWhenUnauthenticated ==
    [][(/\ ~Present(user)
        /\ location' /= location
        /\ location'.path \in ProtectedPaths)
       => (queries' = queries /\ requests' = requests)]_vars

\* C9: with a protected route on the page, the step in which the session
\* stops being authenticated puts the login form on the page in place of the
\* Outlet, and the step in which it becomes authenticated puts the Outlet
\* with the matched route's view back.
C9_GuardFollowsSession ==
    [][(/\ page.loc.path \in ProtectedPaths
        /\ page.match.shown
        /\ page'.loc = page.loc) =>
          /\ (Present(user) /\ ~Present(user')) =>
                (screen.guard = "Outlet" /\ screen'.guard = "AuthComponent")
          /\ (~Present(user) /\ Present(user')) =>
                (/\ screen.guard = "AuthComponent"
                 /\ screen'.guard = "Outlet"
                 /\ screen'.view = LeafView(page'.loc, page'.match).view)]_vars

\* C9 witness: a logout has resolved on the loader route, whose data is
\* loaded, and the login form is on the page.
C9_Witness ==
    /\ resolved.op = "logout"
    /\ location.path = "/users/$id"
    /\ page.loc = location
    /\ match.status = "success"
    /\ match.data = <<ValidatedResult("posts")>>
    /\ screen.guard = "AuthComponent"
    /\ token /= Null

\* The field of a SearchFilter a raw value resolves to: the value when it is
\* a number, absent otherwise.
NumberOrAbsent(v) == IF v \in {Num(n) : n \in (-1)..MaxId} THEN <<v.num>> ELSE Absent

\* C10: for every raw search object the navigation resolves (it never fails
\* on one), each of userId and postId is the raw value when that is a number
\* and absent otherwise.
C10_ResolveCoerces ==
    location.path = "/users/$id" =>
        /\ location.search.userId = NumberOrAbsent(location.raw.userId)
        /\ location.search.postId = NumberOrAbsent(location.raw.postId)
        /\ DOMAIN location.search = {"userId", "postId"}

\* C10 witness: a numeric string resolved to absent next to a number that
\* was kept.
C10_Witness ==
    /\ location.path = "/users/$id"
    /\ location.raw.userId = Str("1")
    /\ location.search.userId = Absent
    /\ location.raw.postId = Num(MaxId)
    /\ location.search.postId = <<MaxId>>

\* The SearchFilter values of the model: each field absent or a number.
NumberOrAbsents == {Absent} \cup {<<n>> : n \in (-1)..MaxId}

ValidFilters == [userId : NumberOrAbsents, postId : NumberOrAbsents]

\* A SearchFilter as a search object: a present field is its number, an
\* absent field is undefined.
AsSearchValue(o) == IF o = Absent THEN Undefined ELSE Num(o[1])

AsSearch(f) == [userId |-> AsSearchValue(f.userId), postId |-> AsSearchValue(f.postId)]

Ensures(k) ==
    \E nav \in NavTargets :
        /\ HasLoader(nav[1])
        /\ KeyOf(LocationOfNav(nav[1], nav[2])) = k
        /\ Navigate(nav[1], nav[2])

\* C12: no key ever has two api.get calls in flight; ensureQueryData for a
\* key whose fetch is in flight (from a navigation, a preload or an
\* invalidation alike) issues no call, leaves the cache alone and waits; a
\* navigation to such a key waits on the same query; and when the answer
\* arrives the waiting loader gets the entry the cache stores.
C12_InFlightDedup ==
    /\ [](\A k \in Keys :
            /\ Cardinality(InFlight(k)) <= 1
            /\ InFlight(k) /= {} <=> QueryOf(queries, k).fetchStatus = "fetching"
            /\ InFlight(k) /= {}
               => ensureQueryData(queries, k) =
                     [queries |-> queries, status |-> "pending", data |-> <<>>,
                      fetched |-> FALSE])
    /\ [][\A k \in Keys :
            /\ (InFlight(k) /= {} /\ Ensures(k))
               => /\ inflight' = inflight
                  /\ requests' = requests
                  /\ queries' = queries
                  /\ match'.status = "pending"
            /\ ((\E resp \in Responses : FetchSettles(k, resp)) /\ Loads(k))
               => /\ match'.status = QueryOf(queries', k).status
                  /\ match'.data = QueryOf(queries', k).data]_vars

\* The loader of '/users/$id' for userId=1 waits again on the call issued
\* before the one for postId=1: a second navigation joined the fetch in
\* flight.
C12_Witness ==
    /\ Loads(UserKey(User1))
    /\ match.status = "pending"
    /\ requests = <<UserKey(User1), UserKey(Post1)>>
    /\ inflight = requests

\* C13: ensureQueryData for a key that has an entry in the cache returns
\* that entry at once, calls api.get no time and leaves the cache as it was
\* (on a navigation, a preload or an invalidation alike); a navigation to
\* such a key puts the entry on the page at once.
C13_CachedEntryReturned ==
    /\ [](\A k \in Keys :
            QueryOf(queries, k).data /= <<>>
            => ensureQueryData(queries, k) =
                  [queries |-> queries, status |-> "success",
                   data |-> QueryOf(queries, k).data, fetched |-> FALSE])
    /\ [][\A k \in Keys :
            (QueryOf(queries, k).data /= <<>> /\ Ensures(k))
            => /\ match' = Resolved(QueryOf(queries, k).data)
               /\ page'.match = match'
               /\ requests' = requests
               /\ inflight' = inflight
               /\ queries' = queries]_vars

\* The stored entry of userId=1 is on the page while the call for postId=1,
\* issued after it, is still in flight.
C13_Witness ==
    /\ Loads(UserKey(User1))
    /\ match.status = "success"
    /\ match.data = QueryOf(queries, UserKey(User1)).data
    /\ match.data = <<[type |-> "success", data |-> "posts"]>>
    /\ requests = <<UserKey(User1), UserKey(Post1)>>
    /\ inflight = <<UserKey(Post1)>>

\* C14 as stated: a navigation to a key with a field present (one the
\* loader fetches) that finds a stored entry issues a new fetch.
C14_AlwaysRefetches ==
    [][\A k \in {j \in Keys : ~QuerySkips(j)} :
          (QueryOf(queries, k).data /= <<>> /\ Ensures(k))
          => requests' = Append(requests, k)]_vars

\* C14, amended: every navigation runs the loader, but for a key fetched
\* before, the loader issues a fetch again exactly when the cache holds no
\* entry for it and no fetch for it is in flight (the entry was collected,
\* or the fetch was rejected); a stored entry is reused without a fetch.
C14_ReusedWhileStored ==
    [][\A k \in Keys :
          ((\E i \in 1..Len(requests) : requests[i] = k) /\ Ensures(k))
          => /\ requests' = Append(requests, k)
                <=> (QueryOf(queries, k).data = <<>> /\ InFlight(k) = {})
             /\ requests' /= Append(requests, k) => requests' = requests
             /\ QueryOf(queries, k).data /= <<>>
                => match'.data = QueryOf(queries, k).data]_vars

\* One call was issued for userId=1, its answer is stored, and the page shows
\* the stored entry after postId=1 was visited and answered in between.
C14_Witness ==
    /\ Loads(UserKey(User1))
    /\ match.data = QueryOf(queries, UserKey(User1)).data
    /\ match.data /= <<>>
    /\ requests = <<UserKey(User1), UserKey(Post1)>>
    /\ inflight = <<>>
    /\ QueryOf(queries, UserKey(Post1)).data /= <<>>

\* C15: a navigation to '/users/$id' whose filter has both fields absent
\* calls api.get no time (no call ever carries that filter) and its loader
\* resolves at once to the error-tagged entry that wraps the placeholder
\* post, which is also what the cache stores.
C15_NoFieldNoFetch ==
    /\ [](\A i \in 1..Len(requests) : requests[i] /= UserKey(NoFilter))
    /\ [][Ensures(UserKey(NoFilter))
          => /\ requests' = requests
             /\ inflight' = inflight
             /\ match' = Resolved(<<[type |-> "error", data |-> placeholderPost]>>)
             /\ QueryOf(queries', UserKey(NoFilter)).data = match'.data]_vars

\* '/users/$id' with no field in the URL shows the placeholder entry and
\* nothing was fetched.
C15_Witness ==
    /\ location.path = "/users/$id"
    /\ location.pushed
    /\ location.raw = NoSearch
    /\ location.search = NoFilter
    /\ match = Resolved(<<[type |-> "error", data |-> placeholderPost]>>)
    /\ requests = <<>>

\* C16 as stated: for every filter with a field present, a navigation to
\* '/users/$id' that finds no query for the key issues one api.get carrying
\* the filter, and a well-formed answer is stored as a success-tagged entry.
C16_FetchesEveryPresentField ==
    [][\A f \in Filters \ {NoFilter} :
          /\ (UserKey(f) \notin DOMAIN queries /\ Ensures(UserKey(f)))
             => /\ requests' = Append(requests, UserKey(f))
                /\ inflight' = Append(inflight, UserKey(f))
          /\ FetchSettles(UserKey(f), "posts")
             => QueryOf(queries', UserKey(f)).data
                    = <<[type |-> "success", data |-> "posts"]>>]_vars

\* C17: an answer that fails PostSchema.array() settles the query of
\* UserPostById successfully (the loader resolves, it does not reject) with
\* the error-tagged placeholder entry, and the invalid body is in no stored
\* entry, in no loader result and not on the page.
C17_MalformedBecomesPlaceholder ==
    /\ [](/\ \A k \in DOMAIN queries :
                 queries[k].data /= <<>> => queries[k].data[1].data /= "malformed"
          /\ match.data /= <<>> => match.data[1].data /= "malformed"
          /\ screen.data /= <<>> => screen.data[1].data /= "malformed")
    /\ [][\A f \in Filters :
            FetchSettles(UserKey(f), "malformed")
            => /\ QueryOf(queries', UserKey(f)) =
                     SuccessQuery([type |-> "error", data |-> placeholderPost])
               /\ (Loads(UserKey(f)) /\ match.status = "pending")
                  => match' = Resolved(<<[type |-> "error",
                                          data |-> placeholderPost]>>)]_vars

\* The one call for userId=1 was answered and the loader and the cache hold
\* the placeholder entry: the answer was malformed.
C17_Witness ==
    /\ Loads(UserKey(User1))
    /\ requests = <<UserKey(User1)>>
    /\ inflight = <<>>
    /\ match = Resolved(<<[type |-> "error", data |-> placeholderPost]>>)
    /\ QueryOf(queries, UserKey(User1)).data = match.data

\* The error indicators: the errorComponent of Route('/_auth/users/'), and
\* the router's ErrorComponent for a route that declares none.
ErrorViews == {"Error component", "ErrorComponent"}

\* C18: when api.get rejects, the query keeps no data (no entry is stored
\* for the key), the loader waiting for it fails and the route, where the
\* guard renders it, shows an error indicator; the next navigation to the
\* same key calls api.get again.
C18_RejectedFetch ==
    [][\A k \in Keys :
          /\ FetchSettles(k, Rejects)
             => /\ QueryOf(queries', k).data = <<>>
                /\ QueryOf(queries', k).status = "error"
                /\ (Loads(k) /\ match.status = "pending")
                   => /\ match' = [status |-> "error", data |-> <<>>, shown |-> TRUE]
                      /\ page' = [loc |-> location, match |-> match']
                      /\ context.isAuthenticated
                         => /\ screen'.view \in ErrorViews
                            /\ location.path = "/users"
                               => screen'.view = "Error component"
          /\ (QueryOf(queries, k).status = "error" /\ Ensures(k))
             => /\ requests' = Append(requests, k)
                /\ inflight' = Append(inflight, k)
                /\ match'.status = "pending"]_vars

\* The call of '/users' for userId=1 was issued a second time, and rejected
\* again: the page shows the route's error component and the cache has no
\* data for the key.
C18_Witness ==
    /\ Loads(UsersKey(User1))
    /\ requests = <<UsersKey(User1), UsersKey(User1)>>
    /\ inflight = <<>>
    /\ QueryOf(queries, UsersKey(User1)) = ErrorQuery
    /\ match.status = "error"
    /\ context.isAuthenticated
    /\ screen.view = "Error component"

\* C19: in a tree without an AuthProvider every render fails with the
\* error useAuth throws, and the session state stays what it was (nothing
\* is logged in, stored or scheduled); in a tree with the provider useAuth
\* returns the context value and no render fails.
C19_ContextMissing ==
    /\ context = NoProvider
       => /\ Throws(useAuth(context))
          /\ useAuth(context).thrown = ContextMissing
          /\ screen.view = ContextMissing
          /\ user = Null /\ token = Null /\ timers = <<>>
          /\ localStorage = [k \in StorageKeys |-> Null]
    /\ context /= NoProvider
       => /\ ~Throws(useAuth(context))
          /\ useAuth(context) = AuthContextValue(user, token)
          /\ screen.view /= ContextMissing

\* Without a provider, after a navigation to a protected route and a
\* reload, the page shows the thrown error.
C19_Witness ==
    /\ context = NoProvider
    /\ location.path = "/home"
    /\ location.pushed
    /\ screen.view = ContextMissing

\* C20: whatever the session, a route outside the guarded subtree shows its
\* own view with no guard on the path: the index page at "/", the about
\* page at "/about", and never the login form.
C20_PublicBypassesGuard ==
    location.path \in PublicPaths
    => /\ screen.guard = "none"
       /\ screen.view = IF location.path = "/" THEN "Index" ELSE "About"
       /\ screen.view /= "UserAuthForm"

\* The about page, navigated to and shown after a logout ended the session.
C20_Witness ==
    /\ location.path = "/about"
    /\ location.pushed
    /\ resolved.op = "logout"
    /\ ~context.isAuthenticated
    /\ screen.view = "About"

\* The views that show a loader's data.
DataViews == {"UserComponent", "UsersComponent"}

\* C21 (as claimed): while a loader route is the location, the page shows a
\* data view only with the data the loader of the view's location resolved
\* to; and while the loader of the location waits in an authenticated
\* session, the page shows the pending indicator (for a route that declares
\* a pendingComponent, once the router's delay before it has elapsed).
C21_RenderGating ==
    /\ screen.view \in DataViews
       => /\ page.match.status = "success"
          /\ screen.data = page.match.data
          /\ screen.data /= <<>>
    /\ (HasLoader(location.path) /\ match.status = "pending"
                                 /\ context.isAuthenticated)
       => \/ screen.view = "PendingComponent"
          \/ HasPendingComponent(location.path) /\ ~match.shown

\* The first half of C21 alone: a data view is on the page only with the
\* data its loader resolved to, never while that loader waits.
RenderAfterLoad ==
    screen.view \in DataViews
    => /\ page.match.status = "success"
       /\ screen.data = page.match.data
       /\ screen.data /= <<>>
       /\ HasLoader(page.loc.path)

\* Any navigation of the loader routes' specification.
Navigates ==
    \/ \E nav \in NavTargets : Navigate(nav[1], nav[2])
    \/ \E id \in USERS : onValueChange(id)
    \/ ResetFilter

\* C22: a navigation (the Select's among them) takes no call out of flight
\* and leaves every fetching query fetching, whatever route it goes to; the
\* answer to a call settles the query of the call's own key with that
\* answer, also when the page has moved on to another location, which then
\* makes no use of it (the loader state and the page stay as they are); and
\* the queries of all other keys stay as they were.
C22_SupersededFetchStillStored ==
    [][/\ Navigates
          => /\ \A i \in 1..Len(inflight) : inflight'[i] = inflight[i]
             /\ \A k \in DOMAIN queries :
                    queries[k].fetchStatus = "fetching"
                    => QueryOf(queries', k) = queries[k]
       /\ \A k \in Keys, resp \in Responses :
            FetchSettles(k, resp)
            => /\ QueryOf(queries', k) =
                     IF resp = Rejects THEN ErrorQuery
                     ELSE SuccessQuery(QueryResult(k, resp))
               /\ \A g \in (DOMAIN queries \cup DOMAIN queries') \ {k} :
                     QueryOf(queries', g) = QueryOf(queries, g)
               /\ ~Loads(k) => (match' = match /\ page' = page /\ screen' = screen)]_vars

\* The Select moved the users page from user 1 to user 2, whose answer is on
\* the page, while the call for user 1, issued first, is still in flight.
C22_Witness ==
    /\ Loads(UsersKey([userId |-> <<2>>, postId |-> Absent]))
    /\ match.status = "success"
    /\ screen.view = "UsersComponent"
    /\ requests = <<UsersKey(User1), UsersKey([userId |-> <<2>>, postId |-> Absent])>>
    /\ inflight = <<UsersKey(User1)>>
    /\ QueryOf(queries, UsersKey(User1)).fetchStatus = "fetching"

\* The session: the two React states and the two persisted entries.
Session == <<user, token, localStorage>>

\* The steps of the router and of the query cache.
LoaderSteps ==
    \/ Mount
    \/ \E nav \in OwnerTargets : Navigate(nav[1], nav[2])
    \/ \E nav \in AppTargets : Preload(nav[1], nav[2])
    \/ \E k \in Keys, resp \in Responses : FetchSettles(k, resp)
    \/ \E k \in Keys : CollectGarbage(k)

\* C23: a step changes the session (user, token or a persisted entry) only
\* if it is the completion of a login or of a logout; navigations,
\* preloads, answers of the backend, garbage collection and page loads
\* leave it as it is.  A step changes the query cache only if it is a page
\* load (which starts with an empty cache), a run of a loader (on a
\* navigation, on a preload, or on the router.invalidate() the login form
\* chains on its login, each through ensureQueryData), the answer to a call
\* ensureQueryData issued, or the cache's own garbage collection; the calls
\* of login and logout and the completion of logout leave every query as it
\* is, and the completion of a login leaves every stored entry as it is.
C23_SingleWriter ==
    [][/\ Session' /= Session => (LoginResolves \/ LogoutResolves)
       /\ LoaderSteps => Session' = Session
       /\ queries' /= queries
          => \/ LoaderSteps
             \/ /\ LoginResolves
                /\ Invalidates(timers[FirstDue].then)
                /\ HasLoader(location.path)
                /\ queries' = ensureQueryData(queries, KeyOf(location)).queries
       /\ ( \/ \E u \in RawUsernames, p \in RawPasswords : SubmitLogin(u, p)
            \/ ClickLogout
            \/ Tick
            \/ LogoutResolves )
          => queries' = queries
       /\ LoginResolves
          => \A k \in DOMAIN queries :
                queries[k].data /= <<>> => QueryOf(queries', k) = queries[k]]_vars

\* A logout completed on the data view of userId=1: the session is over and
\* the entry fetched for the page is still in the cache.
C23_Witness ==
    /\ resolved.op = "logout"
    /\ user = Null
    /\ localStorage[key] = Null
    /\ Loads(UserKey(User1))
    /\ match.status = "success"
    /\ QueryOf(queries, UserKey(User1)).data = match.data
    /\ requests = <<UserKey(User1)>>

\* The pending logins that a logout issued after them is due before.
Overtaken ==
    {i \in 1..Len(timers) :
        /\ timers[i].call.op = "login"
        /\ \E j \in 1..Len(timers) :
              /\ i < j
              /\ timers[j].call.op = "logout"
              /\ timers[j].remaining < timers[i].remaining}

\* C24: a pending call completes exactly when its latency has passed (500
\* ms for login, 250 ms for logout) and writes nothing before; the step
\* that completes a call applies all its writes to memory and storage at
\* once, and no other step writes the session (a page load reads the
\* stored session back); a login does not complete
\* while a logout issued after it is due before it; and the session is
\* always the one written by the call that completed last: the login's user
\* and token (authenticated for a non-empty username) after a login, no
\* user after a logout.
C24_LastCompletionWins ==
    /\ [](/\ \A i \in 1..Len(timers) :
                 /\ timers[i].remaining >= 0
                 /\ timers[i].remaining <=
                        IF timers[i].call.op = "login" THEN LoginSleep ELSE LogoutSleep
          /\ resolved.op = "login"
             => /\ user = Some(resolved.username)
                /\ token = Some(resolved.token)
                /\ resolved.username /= "" => context.isAuthenticated
          /\ resolved.op = "logout" => (user = Null /\ localStorage[key] = Null))
    /\ [][/\ Session' /= Session
             => /\ LoginResolves \/ LogoutResolves \/ Mount
                /\ Mount \/ Len(timers') = Len(timers) - 1
          /\ LoginResolves
             => /\ user' = Some(timers[FirstDue].call.username)
                /\ token' = Some(timers[FirstDue].call.token)
                /\ localStorage' = setStoredToken(
                       setStoredUser(localStorage, user'), token')
          /\ LogoutResolves
             => /\ user' = Null
                /\ token' = token
                /\ localStorage' = setStoredUser(localStorage, Null)
          /\ LoginResolves => FirstDue \notin Overtaken]_vars

\* A login for admin has 250 ms left and the logout issued after it is due.
C24_Witness ==
    /\ Len(timers) = 2
    /\ timers[1].call = LoginCall("admin", "skajdksjakdj")
    /\ timers[1].remaining = LoginSleep - LogoutSleep
    /\ timers[2].call = LogoutCall
    /\ timers[2].remaining = 0
    /\ Overtaken = {1}

====
